---- MODULE Spec2Model ----
(***************************************************************************)
(* Model of pvanalytics/quality/data_shifts.py: the daily data-shift       *)
(* detector detect_data_shifts and the longest-segment finder              *)
(* get_longest_shift_segment_dates.                                        *)
(*                                                                         *)
(* A pandas Series is a sequence of samples [t, v, nan]: t is the          *)
(* timestamp in hours since 1970-01-01 00:00 (for a non-datetime index the *)
(* integer label), v the value and nan whether the value is NaN (v is 0    *)
(* then).  A boolean mask is a sequence of [t, b].  One call of            *)
(* detect_data_shifts is a run of the pipeline start -> checked ->         *)
(* filter_done -> dedup_done -> preprocessed -> searched -> returned; a    *)
(* raise ends the run in pc = "error" with the exception type in err.      *)
(* A keyword argument of the call is bound (kw) by the stage that first    *)
(* reads it.  The ruptures library is taken as installed.  No statement of  *)
(* data_shifts.py calls warnings.warn.                                     *)
(***************************************************************************)
EXTENDS Integers, Sequences, FiniteSets, TLC

VARIABLES
    pc,                    \* stage of the call
    time_series,           \* the caller's series
    is_datetime,           \* isinstance(time_series.index, pd.DatetimeIndex)
    kw,                    \* keyword arguments of the call, bound when first read
    steps,                 \* stages and functions executed so far
    time_series_filtered,  \* [bound, s]: the local of that name
    seasonality_rmv,       \* the local of that name
    time_series_processed, \* [s, den]: sample values are v / den
    algo,                  \* the search configuration constructed
    result,                \* breakpoints, as predict returned / after line 211
    mask,                  \* the returned mask
    passing_dates_dict,    \* result of get_longest_shift_segment_dates
    err,                   \* exception type raised, "" when none
    warnings,              \* messages passed to warnings.warn, in order
    heap,                  \* Index objects: [name, ref], see TakeIndex
    energy_series,         \* the caller's series of the cumulative_energy calls
    differenced_series,    \* the local of that name in energy_cumulative
    returned,              \* what the cumulative_energy call returned
    measured_time_of_day,  \* shifts_ruptures: the measured series [tz, v]
    modeled_time_of_day,   \* shifts_ruptures: the modeled series [tz, v]
    break_points,          \* shifts_ruptures: what the search returned
    shift_amount,          \* shifts_ruptures: second result [tz, v]
    shift_mask,            \* shifts_ruptures: first result [tz, v]
    sunrise,               \* has_dst: the sunrise series [observes_dst, nat]
    transition_dates,      \* has_dst: transition dates within the index
    dst_mask               \* has_dst: the result

vars == <<pc, time_series, is_datetime, kw, steps, time_series_filtered,
          seasonality_rmv, time_series_processed, algo, result, mask,
          passing_dates_dict, err, warnings, heap, energy_series,
          differenced_series, returned, measured_time_of_day,
          modeled_time_of_day, break_points, shift_amount, shift_mask,
          sunrise, transition_dates, dst_mask>>

\* The variables of the calls other than those of data_shifts.py.
others ==
    <<energy_series, differenced_series, returned, measured_time_of_day,
      modeled_time_of_day, break_points, shift_amount, shift_mask,
      sunrise, transition_dates, dst_mask>>

(***************************************************************************)
(* Bounds of the input sets.                                               *)
(***************************************************************************)
MaxLen == 7          \* longest daily input series
MaxOtherLen == 3     \* longest input series of another kind of index
RepVal == 3          \* the value an input may repeat
GapDays == 727       \* length of the one long step an index may hold
StartDay == 16436    \* first timestamp, days since 1970-01-01 (2015-01-01)
MaxEnergyLen == 11   \* longest energy series
MaxShiftLen == 6     \* longest time-of-day series
MaxDstDays == 6      \* longest sunrise series
MaxFilterLen == 6    \* longest series given to the filter alone
MaxSeasonVal == 2    \* largest value given to the preprocessor alone
MaxRound == 31       \* largest magnitude given to _round_multiple alone

HoursPerDay == 24

(***************************************************************************)
(* Generic helpers.                                                        *)
(***************************************************************************)
Range(s) == {s[i] : i \in DOMAIN s}

SeqMin(S) == CHOOSE x \in S : \A y \in S : x <= y
SeqMax(S) == CHOOSE x \in S : \A y \in S : x >= y

\* The subsequence of s at the positions satisfying keep, order preserved.
RECURSIVE SelectIdx(_, _, _)
SelectIdx(s, keep, i) ==
    IF i > Len(s) THEN <<>>
    ELSE IF keep[i] THEN <<s[i]>> \o SelectIdx(s, keep, i + 1)
         ELSE SelectIdx(s, keep, i + 1)

\* Ascending sort of a sequence of integers.
RECURSIVE Insert(_, _)
Insert(x, s) ==
    IF s = <<>> THEN <<x>>
    ELSE IF x <= Head(s) THEN <<x>> \o s
         ELSE <<Head(s)>> \o Insert(x, Tail(s))

RECURSIVE SortAsc(_)
SortAsc(s) == IF s = <<>> THEN <<>> ELSE Insert(Head(s), SortAsc(Tail(s)))

Times(s) == [i \in DOMAIN s |-> s[i].t]

\* The non-NaN values of a series, in order (Series.dropna()).
NonNan(s) == SelectIdx(s, [i \in DOMAIN s |-> ~s[i].nan], 1)
Vals(s) == [i \in DOMAIN NonNan(s) |-> NonNan(s)[i].v]

(***************************************************************************)
(* Input series.                                                           *)
(***************************************************************************)
Sample(t, v) == [t |-> t, v |-> v, nan |-> FALSE]
NanSample(t) == [t |-> t, v |-> 0, nan |-> TRUE]

\* Sampling intervals in hours other than daily: 36-hourly, weekly.
OtherFreqs == {36, 7 * HoursPerDay}

\* Positions after which a daily index may hold its long step.
GapPositions == {1, 3}

\* Timestamps of n samples at interval f, with one step lengthened by
\* GapDays days after position g (g = 0: no long step).
IndexOf(n, f, g) ==
    [i \in 1..n |-> StartDay * HoursPerDay + (i - 1) * f
                    + (IF g > 0 /\ i > g THEN GapDays * HoursPerDay ELSE 0)]

DailyIndexes ==
    UNION {{IndexOf(n, HoursPerDay, 0)} \cup
           {IndexOf(n, HoursPerDay, g) : g \in GapPositions \cap 1..(n - 1)} :
              n \in 1..MaxLen}

OtherIndexes == {IndexOf(n, f, 0) : n \in 1..MaxOtherLen, f \in OtherFreqs}

DatetimeIndexes == DailyIndexes \cup OtherIndexes

\* A RangeIndex 0..n-1, the index of a series built without timestamps.
RangeIndexOf(n) == [i \in 1..n |-> i - 1]

\* Values: at position i the rising value i + 1, the repeated value or NaN.
ValueChoices(i) == {[v |-> i + 1, nan |-> FALSE], [v |-> RepVal, nan |-> FALSE],
                    [v |-> 0, nan |-> TRUE]}

\* The value sequences of length n.
RECURSIVE ValueSeqs(_)
ValueSeqs(n) ==
    IF n = 0 THEN {<<>>}
    ELSE {Append(s, c) : s \in ValueSeqs(n - 1), c \in ValueChoices(n)}

SeriesOn(idx) ==
    {[i \in DOMAIN idx |-> [t |-> idx[i], v |-> c[i].v, nan |-> c[i].nan]] :
        c \in ValueSeqs(Len(idx))}

(***************************************************************************)
(* _run_data_checks                                                        *)
(***************************************************************************)
\* index.to_series().diff(), the leading NaT dropped.
Diffs(s) == [i \in 1..(Len(s) - 1) |-> s[i + 1].t - s[i].t]

Count(d, ds) == Cardinality({i \in DOMAIN ds : ds[i] = d})

\* value_counts().idxmax(): a most frequent difference.
Modes(s) == {d \in Range(Diffs(s)) :
                \A e \in Range(Diffs(s)) : Count(e, Diffs(s)) <= Count(d, Diffs(s))}

\* Timedelta.days: whole days, rounded down.
Days(td) == td \div HoursPerDay

NoError == ""

\* Line 30: isinstance(time_series.index, pd.DatetimeIndex).
\* Mutant of IndexTypeOk: the index type is not checked.
IndexTypeOk_Any(isdt) == TRUE

IndexTypeOk(isdt) == isdt

\* Line 34: the most frequent difference, in days, is 1.
DailyFrequency(m) == Days(m) = 1

\* The locals of detect_data_shifts before the call has bound them.
DataShiftsIdle ==
    /\ steps = <<>>
    /\ time_series_filtered = [bound |-> FALSE, s |-> <<>>]
    /\ seasonality_rmv = FALSE
    /\ time_series_processed = [s |-> <<>>, den |-> 1]
    /\ algo = [method |-> "", model |-> "", width |-> 0, pen |-> 0]
    /\ result = <<>>
    /\ mask = <<>>
    /\ passing_dates_dict = [start_date |-> 0, end_date |-> 0]

\* No cumulative_energy call is under way.
EnergyIdle ==
    /\ energy_series = <<>>
    /\ differenced_series = <<>>
    /\ returned = [kind |-> "unset", series |-> <<>>]

\* No shifts_ruptures call is under way.
ShiftsIdle ==
    /\ measured_time_of_day = [tz |-> "None", v |-> <<>>]
    /\ modeled_time_of_day = [tz |-> "None", v |-> <<>>]
    /\ break_points = <<>>
    /\ shift_amount = [tz |-> "unset", v |-> <<>>]
    /\ shift_mask = [tz |-> "unset", v |-> <<>>]

\* No has_dst call is under way.
DstIdle ==
    /\ sunrise = [observes_dst |-> FALSE, nat |-> <<>>]
    /\ transition_dates = {}
    /\ dst_mask = <<>>

\* A call of detect_data_shifts or get_longest_shift_segment_dates on a
\* series whose index object (object 1) carries no name.
Init ==
    /\ pc = "start"
    /\ \/ /\ is_datetime = TRUE
          /\ \E idx \in DatetimeIndexes : time_series \in SeriesOn(idx)
       \/ /\ is_datetime = FALSE
          /\ \E n \in 1..MaxOtherLen :
                time_series \in SeriesOn(RangeIndexOf(n))
    /\ heap = [name |-> <<"None">>, ref |-> [time_series |-> 1]]
    /\ kw = <<>>
    /\ DataShiftsIdle
    /\ EnergyIdle
    /\ ShiftsIdle
    /\ DstIdle
    /\ err = NoError
    /\ warnings = <<>>

(***************************************************************************)
(* Index objects.  heap.name[o] is the name attribute of Index object o,   *)
(* heap.ref[x] the Index object that the series bound to x holds.          *)
(***************************************************************************)
\* Mutant of TakeIndex: the selection keeps the Index object of its source.
TakeIndex_Shared(h, from, to) ==
    [name |-> h.name, ref |-> (to :> h.ref[from]) @@ h.ref]

\* series[boolean mask], as at lines 67-68 and inside drop_duplicates at
\* line 179: the result holds a new Index object with the name of the old.
TakeIndex(h, from, to) ==
    [name |-> Append(h.name, h.name[h.ref[from]]),
     ref  |-> (to :> (Len(h.name) + 1)) @@ h.ref]

\* Arithmetic on a series (lines 97-98, 112), pd.Series(..., index=i) at
\* line 214 and reindex(i) at line 218: the result holds the Index object
\* it was given.
ShareIndex(h, from, to) ==
    [name |-> h.name, ref |-> (to :> h.ref[from]) @@ h.ref]

\* series.index.name = name (line 213).
SetIndexName(h, of, name) ==
    [h EXCEPT !.name[h.ref[of]] = name]

IndexName(h, of) == h.name[h.ref[of]]

Raise(e) ==
    /\ pc' = "error"
    /\ err' = e

\* _run_data_checks(time_series): data_shifts.py lines 28-37, called at 174.
\* idxmax of an empty value_counts (a single timestamp) raises ValueError.
RunDataChecks ==
    /\ pc = "start"
    /\ UNCHANGED <<warnings, others>>
    /\ UNCHANGED heap
    /\ steps' = Append(steps, "checks")
    /\ UNCHANGED <<time_series, is_datetime, kw, time_series_filtered,
                   seasonality_rmv, time_series_processed, algo, result, mask,
                   passing_dates_dict>>
    /\ IF ~IndexTypeOk(is_datetime) THEN Raise("TypeError")
       ELSE IF Modes(time_series) = {} THEN Raise("ValueError")
       ELSE \E m \in Modes(time_series) :
                IF ~DailyFrequency(m) THEN Raise("ValueError")
                ELSE pc' = "checked" /\ err' = err

(***************************************************************************)
(* _erroneous_filter                                                       *)
(***************************************************************************)
StaleWindow == 6

\* gaps.stale_values_round(time_series, window=6, decimals=3, mark='tail'):
\* position i is stale when it lies in a run of StaleWindow equal consecutive
\* values and is not the first of the run.  A NaN is equal to nothing.
StaleEnd(s, e) ==
    /\ e >= StaleWindow
    /\ \A j \in (e - StaleWindow + 1)..e : ~s[j].nan /\ s[j].v = s[e].v

StaleMask(s) ==
    [i \in DOMAIN s |->
        \E e \in i..(i + StaleWindow - 2) : e <= Len(s) /\ StaleEnd(s, e)]

\* 100 * Series.quantile(q / 100) over the sorted non-NaN values srt (linear
\* interpolation between the two nearest ranks).
Quantile100(srt, q) ==
    LET pos == (Len(srt) - 1) * q
        lo  == pos \div 100 + 1
        fr  == pos % 100
    IN  IF fr = 0 THEN 100 * srt[lo]
        ELSE 100 * srt[lo] + fr * (srt[lo + 1] - srt[lo])

\* time_series <= time_series.quantile(.01), elementwise; False on a NaN and
\* when the quantile is NaN (no values).
LowMask(s) ==
    LET srt == SortAsc(Vals(s))
    IN  [i \in DOMAIN s |->
            ~s[i].nan /\ srt # <<>> /\ 100 * s[i].v <= Quantile100(srt, 1)]

HighMask(s) ==
    LET srt == SortAsc(Vals(s))
    IN  [i \in DOMAIN s |->
            ~s[i].nan /\ srt # <<>> /\ 100 * s[i].v >= Quantile100(srt, 99)]

QuantileMask(s) == [i \in DOMAIN s |-> LowMask(s)[i] \/ HighMask(s)[i]]

NegativeMask(s) == [i \in DOMAIN s |-> ~s[i].nan /\ s[i].v <= 0]

ErroneousFilter(s) ==
    LET stale == StaleMask(s)
        neg   == NegativeMask(s)
        quant == QuantileMask(s)
    IN  SelectIdx(s, [i \in DOMAIN s |-> ~stale[i] /\ ~neg[i] /\ ~quant[i]], 1)

\* Series.drop_duplicates(): the first occurrence of every value is kept,
\* NaN counting as one value.
SameValue(a, b) == (a.nan /\ b.nan) \/ (~a.nan /\ ~b.nan /\ a.v = b.v)

\* Mutant of DropDuplicates: only a repeat of the value just before goes.
DropDuplicates_Adjacent(s) ==
    SelectIdx(s, [i \in DOMAIN s |->
                     ~(i > 1 /\ SameValue(s[i - 1], s[i]))], 1)

DropDuplicates(s) ==
    SelectIdx(s, [i \in DOMAIN s |->
                     ~\E j \in 1..(i - 1) : SameValue(s[j], s[i])], 1)

(***************************************************************************)
(* _preprocess_data                                                        *)
(***************************************************************************)
\* Calendar month and day of a timestamp (proleptic Gregorian calendar).
DayOfYearMarch(t) ==
    LET z   == t \div HoursPerDay + 719468
        era == z \div 146097
        doe == z - era * 146097
        yoe == (doe - doe \div 1460 + doe \div 36524 - doe \div 146096) \div 365
    IN  doe - (365 * yoe + yoe \div 4 - yoe \div 100)

MonthOf(t) ==
    LET mp == (5 * DayOfYearMarch(t) + 2) \div 153
    IN  IF mp < 10 THEN mp + 3 ELSE mp - 9

DayOf(t) ==
    LET doy == DayOfYearMarch(t)
        mp  == (5 * doy + 2) \div 153
    IN  doy - (153 * mp + 2) \div 5 + 1

\* Twice the median of a non-empty sequence of integers.
Median2(vs) ==
    LET srt == SortAsc(vs)
        m   == Len(srt)
    IN  IF m % 2 = 1 THEN 2 * srt[(m + 1) \div 2]
        ELSE srt[m \div 2] + srt[m \div 2 + 1]

\* (time_series - min) / (max - min): numerators v over the denominator den.
\* With max = min, or no value at all, every entry is NaN (0 / 0).
Normalize(s) ==
    LET vs == Range(Vals(s))
        lo == SeqMin(vs)
        hi == SeqMax(vs)
    IN  IF vs = {} \/ lo = hi
        THEN [s |-> [i \in DOMAIN s |-> NanSample(s[i].t)], den |-> 1]
        ELSE [s |-> [i \in DOMAIN s |->
                        IF s[i].nan THEN s[i] ELSE Sample(s[i].t, s[i].v - lo)],
              den |-> hi - lo]

\* Mutant of SameDay: the day of the month is left out of the key.
SameDay_MonthOnly(s, i) ==
    SelectIdx(s, [j \in DOMAIN s |-> MonthOf(s[j].t) = MonthOf(s[i].t)], 1)

\* The samples of s sharing the (month, day) key of s[i].
SameDay(s, i) ==
    SelectIdx(s, [j \in DOMAIN s |-> /\ MonthOf(s[j].t) = MonthOf(s[i].t)
                                     /\ DayOf(s[j].t) = DayOf(s[i].t)], 1)

\* normalized - normalized.groupby([month, day]).transform("median"), the
\* numerators doubled so that the median of an even group stays an integer.
RemoveSeasonality(n) ==
    [s |-> [i \in DOMAIN n.s |->
               IF n.s[i].nan THEN n.s[i]
               ELSE Sample(n.s[i].t,
                           2 * n.s[i].v - Median2(Vals(SameDay(n.s, i))))],
     den |-> 2 * n.den]

PreprocessData(s, remove_seasonality) ==
    IF ~remove_seasonality THEN Normalize(s)
    ELSE RemoveSeasonality(Normalize(s))

(***************************************************************************)
(* The changepoint search of the ruptures library.                         *)
(***************************************************************************)
\* Minimum segment length of every ruptures search class; the constructor
\* calls of detect_data_shifts leave it at the library default.
min_size == 2

RECURSIVE SetToSeq(_)
SetToSeq(S) ==
    IF S = {} THEN <<>>
    ELSE <<SeqMin(S)>> \o SetToSeq(S \ {SeqMin(S)})

\* What predict(pen) may return on n samples: the breakpoints in rising
\* order, every segment at least min_size long, closed by the end-of-signal
\* marker n.
Predictions(n) ==
    {SetToSeq(S \cup {n}) :
        S \in {T \in SUBSET (min_size..(n - min_size)) :
                  \A a, b \in T : a < b => b - a >= min_size}}

\* Mutant of SearchClasses: a string or None is taken for a search class.
SearchClasses_AnyObject ==
    {"rpt.Window", "rpt.BottomUp", "rpt.Binseg", "str:Pelt", "None"}

\* The search classes and the cost models ruptures knows.
SearchClasses == {"rpt.Window", "rpt.BottomUp", "rpt.Binseg"}
CostModels == {"rbf", "l2"}

\* (use_default_models, method, cost, penalty) as a caller may pass them:
\* nothing; a class, a model and a penalty of the library, with the default
\* models left on or turned off; a string in place of the class; a model
\* the library does not know; a penalty of zero, a negative penalty.
Calls ==
    {[use_default_models |-> TRUE, method |-> "None", cost |-> "None",
      penalty |-> 40],
     [use_default_models |-> TRUE, method |-> "rpt.Binseg", cost |-> "l2",
      penalty |-> 10],
     [use_default_models |-> FALSE, method |-> "None", cost |-> "None",
      penalty |-> 40],
     [use_default_models |-> FALSE, method |-> "rpt.BottomUp", cost |-> "rbf",
      penalty |-> 40],
     [use_default_models |-> FALSE, method |-> "rpt.Binseg", cost |-> "l2",
      penalty |-> 10],
     [use_default_models |-> FALSE, method |-> "str:Pelt", cost |-> "None",
      penalty |-> 40],
     [use_default_models |-> FALSE, method |-> "rpt.Binseg", cost |-> "none",
      penalty |-> 40],
     [use_default_models |-> FALSE, method |-> "rpt.BottomUp", cost |-> "rbf",
      penalty |-> 0],
     [use_default_models |-> FALSE, method |-> "rpt.Binseg", cost |-> "l2",
      penalty |-> -10]}

(***************************************************************************)
(* detect_data_shifts                                                      *)
(***************************************************************************)
\* Lines 176-177: the filter runs only when filtering is true; otherwise
\* time_series_filtered is left unbound.
Filter ==
    /\ pc = "checked"
    /\ UNCHANGED <<warnings, others>>
    /\ \E filtering \in BOOLEAN :
          /\ kw' = kw @@ ("filtering" :> filtering)
          /\ IF filtering
             THEN /\ time_series_filtered' =
                        [bound |-> TRUE, s |-> ErroneousFilter(time_series)]
                  /\ heap' = TakeIndex(heap, "time_series",
                                       "time_series_filtered")
                  /\ steps' = Append(steps, "filter")
             ELSE UNCHANGED <<time_series_filtered, steps, heap>>
    /\ pc' = "filter_done"
    /\ UNCHANGED <<time_series, is_datetime, seasonality_rmv,
                   time_series_processed, algo, result, mask,
                   passing_dates_dict, err>>

\* Line 179.
Dedup ==
    /\ pc = "filter_done"
    /\ UNCHANGED <<warnings, others>>
    /\ IF ~time_series_filtered.bound
       THEN /\ Raise("UnboundLocalError")
            /\ UNCHANGED <<time_series_filtered, steps, heap>>
       ELSE /\ time_series_filtered' =
                  [bound |-> TRUE, s |-> DropDuplicates(time_series_filtered.s)]
            /\ heap' = TakeIndex(heap, "time_series_filtered",
                                 "time_series_filtered")
            /\ steps' = Append(steps, "dedup")
            /\ pc' = "dedup_done"
            /\ err' = err
    /\ UNCHANGED <<time_series, is_datetime, kw, seasonality_rmv,
                   time_series_processed, algo, result, mask,
                   passing_dates_dict>>

\* (index.max() - index.min()).days <= 730; with an empty index the span is
\* NaT, its days NaN, and the comparison false.
SpanDays(s) == Days(SeqMax(Range(Times(s))) - SeqMin(Range(Times(s))))

\* Mutant of ShortSeries: a span of exactly 730 days counts as long.
ShortSeries_Strict(s) == s # <<>> /\ SpanDays(s) < 730

ShortSeries(s) == s # <<>> /\ SpanDays(s) <= 730

\* Lines 182-192.
Preprocess ==
    /\ pc = "dedup_done"
    /\ UNCHANGED <<warnings, others>>
    /\ heap' = ShareIndex(heap, "time_series_filtered",
                          "time_series_processed")
    /\ seasonality_rmv' = ~ShortSeries(time_series_filtered.s)
    /\ time_series_processed' =
           PreprocessData(time_series_filtered.s,
                          ~ShortSeries(time_series_filtered.s))
    /\ steps' = Append(steps, "preprocess")
    /\ pc' = "preprocessed"
    /\ UNCHANGED <<time_series, is_datetime, kw, time_series_filtered, algo,
                   result, mask, passing_dates_dict, err>>

\* Mutant of SelectAlgo: the passed penalty is dropped for the default.
SelectAlgo_DefaultPenalty(rmv, use_default_models, method, cost, penalty) ==
    IF rmv /\ use_default_models
    THEN [method |-> "rpt.BottomUp", model |-> "rbf", width |-> 0, pen |-> 40]
    ELSE IF ~rmv /\ use_default_models
    THEN [method |-> "rpt.Window", model |-> "rbf", width |-> 50, pen |-> 30]
    ELSE [method |-> method, model |-> cost, width |-> 0, pen |-> 40]

\* Lines 196-208: the search constructed for the call.
SelectAlgo(rmv, use_default_models, method, cost, penalty) ==
    IF rmv /\ use_default_models
    THEN [method |-> "rpt.BottomUp", model |-> "rbf", width |-> 0, pen |-> 40]
    ELSE IF ~rmv /\ use_default_models
    THEN [method |-> "rpt.Window", model |-> "rbf", width |-> 50, pen |-> 30]
    ELSE [method |-> method, model |-> cost, width |-> 0, pen |-> penalty]

\* Lines 193-208: points = processed.dropna(); fit; predict.
Search ==
    /\ pc = "preprocessed"
    /\ UNCHANGED <<warnings, others>>
    /\ UNCHANGED heap
    /\ steps' = Append(steps, "search")
    /\ \E a \in Calls :
          LET sel == SelectAlgo(seasonality_rmv, a.use_default_models,
                                a.method, a.cost, a.penalty)
              n   == Len(NonNan(time_series_processed.s))
          IN  /\ kw' = kw @@ ("use_default_models" :> a.use_default_models)
                          @@ ("method" :> a.method) @@ ("cost" :> a.cost)
                          @@ ("penalty" :> a.penalty)
              /\ algo' = sel
              /\ IF sel.method \notin SearchClasses
                 THEN Raise("TypeError") /\ result' = result
                 ELSE IF sel.model \notin CostModels
                 THEN Raise("ValueError") /\ result' = result
                 ELSE IF n < min_size
                 THEN Raise("BadSegmentationParameters") /\ result' = result
                 ELSE /\ result' \in Predictions(n)
                      /\ pc' = "searched"
                      /\ err' = err
    /\ UNCHANGED <<time_series, is_datetime, time_series_filtered,
                   seasonality_rmv, time_series_processed, mask,
                   passing_dates_dict>>

\* Mutant of RemoveSentinel: the end-of-signal marker stays in the list.
RemoveSentinel_Keep(res, n) == res

\* Lines 210-211: result.remove(len(points)) when present.
RemoveSentinel(res, n) == SelectSeq(res, LAMBDA r : r # n)

\* Mutant of MaskOnProcessed: breakpoints read as positions counted from 1.
MaskOnProcessed_OneBased(proc, res) ==
    [i \in DOMAIN proc |-> [t |-> proc[i].t, b |-> i \in Range(res)]]

\* Lines 214-215: mask.iloc[result] = True over the processed index
\* (positions count from 0).
MaskOnProcessed(proc, res) ==
    [i \in DOMAIN proc |-> [t |-> proc[i].t, b |-> (i - 1) \in Range(res)]]

\* Mutant of Reindex: the mask stays on the processed index.
Reindex_Skipped(m, index) == m

\* Line 218: mask.reindex(index, fill_value=False).
Reindex(m, index) ==
    [i \in DOMAIN index |->
        [t |-> index[i],
         b |-> \E j \in DOMAIN m : m[j].t = index[i] /\ m[j].b]]

\* Lines 209-219.
BuildMask ==
    /\ pc = "searched"
    /\ UNCHANGED <<warnings, others>>
    /\ steps' = Append(steps, "mask")
    /\ LET n   == Len(NonNan(time_series_processed.s))
           res == RemoveSentinel(result, n)
       IN  /\ result' = res
           /\ IF \E r \in Range(res) : r >= Len(time_series_processed.s)
              THEN /\ Raise("IndexError")
                   /\ mask' = mask
                   /\ heap' = SetIndexName(heap, "time_series_processed",
                                           "datetime")
              ELSE /\ heap' = ShareIndex(
                                  SetIndexName(heap, "time_series_processed",
                                               "datetime"),
                                  "time_series", "mask")
                   /\ mask' = Reindex(MaskOnProcessed(time_series_processed.s,
                                                      res),
                                      Times(time_series))
                   /\ pc' = "returned"
                   /\ err' = err
    /\ UNCHANGED <<time_series, is_datetime, kw, time_series_filtered,
                   seasonality_rmv, time_series_processed, algo,
                   passing_dates_dict>>

(***************************************************************************)
(* get_longest_shift_segment_dates                                         *)
(***************************************************************************)
BufferDefault == 7

\* cpd_mask.cumsum()
IntervalId(m) ==
    [i \in DOMAIN m |-> Cardinality({j \in 1..i : m[j].b})]

Members(m, id) == {i \in DOMAIN m : IntervalId(m)[i] = id}

\* Mutant of LongestIds: the first segment is taken whatever its length.
LongestIds_First(m) == {IntervalId(m)[1]}

\* interval_id.value_counts().idxmax(): an id with the most members.
LongestIds(m) ==
    {id \in Range(IntervalId(m)) :
        \A other \in Range(IntervalId(m)) :
            Cardinality(Members(m, other)) <= Cardinality(Members(m, id))}

\* Mutant of SegmentDates: the buffer is not applied.
SegmentDates_NoBuffer(m, id, buffer_day_length) ==
    LET dates == {m[i].t : i \in Members(m, id)}
    IN  [start_date |-> SeqMin(dates), end_date |-> SeqMax(dates)]

\* Mutant of SegmentDates: the buffer is added to the end date.
SegmentDates_EndPlus(m, id, buffer_day_length) ==
    LET dates == {m[i].t : i \in Members(m, id)}
    IN  [start_date |-> SeqMin(dates) + buffer_day_length * HoursPerDay,
         end_date   |-> SeqMax(dates) + buffer_day_length * HoursPerDay]

\* Lines 292-297.
SegmentDates(m, id, buffer_day_length) ==
    LET dates == {m[i].t : i \in Members(m, id)}
    IN  [start_date |-> SeqMin(dates) + buffer_day_length * HoursPerDay,
         end_date   |-> SeqMax(dates) - buffer_day_length * HoursPerDay]

\* Lines 290-298, on the mask detect_data_shifts returned at line 287.  The
\* caller passes buffer_day_length or leaves it at its default.
LongestSegment ==
    /\ pc = "returned"
    /\ UNCHANGED <<warnings, others>>
    /\ UNCHANGED heap
    /\ \E omitted \in BOOLEAN, passed \in {0, 2}, id \in LongestIds(mask) :
          LET buffer_day_length == IF omitted THEN BufferDefault ELSE passed
          IN  /\ kw' = kw @@ ("buffer_omitted" :> omitted)
                          @@ ("buffer_day_length" :> buffer_day_length)
              /\ passing_dates_dict' = SegmentDates(mask, id, buffer_day_length)
    /\ pc' = "segment_done"
    /\ UNCHANGED <<time_series, is_datetime, steps, time_series_filtered,
                   seasonality_rmv, time_series_processed, algo, result, mask,
                   err>>

Next ==
    \/ RunDataChecks
    \/ Filter
    \/ Dedup
    \/ Preprocess
    \/ Search
    \/ BuildMask
    \/ LongestSegment

Spec == Init /\ [][Next]_vars

(***************************************************************************)
(* pvanalytics/features/cumulative_energy.py.  Energy values are counted   *)
(* in halves, so that the threshold -0.5 of line 37 is the integer -1.     *)
(***************************************************************************)
\* Energy series of n readings: the first `down` steps fall by 1.0, the
\* others rise by 1.0; with `edge` the last step falls by 0.5 instead; with
\* hole > 0 the reading at that position is NaN.
EnergySeriesOf(n, down, edge, hole) ==
    [i \in 1..n |->
        IF i = hole THEN NanSample(i - 1)
        ELSE Sample(i - 1,
                    4 * MaxEnergyLen
                    + (IF i - 1 <= down THEN -2 * (i - 1)
                       ELSE -2 * down + 2 * (i - 1 - down))
                    - (IF edge /\ i = n /\ n > 1 THEN 3 ELSE 0))]

EnergyInputs ==
    {EnergySeriesOf(n, down, edge, hole) :
        n \in 0..MaxEnergyLen, down \in 0..MaxEnergyLen, edge \in BOOLEAN,
        hole \in {0, 2}}

\* pct_increase_threshold as callers pass it; 95 is the default (line 6).
Thresholds == {50, 95}

\* energy_series.diff()
Diff(s) ==
    [i \in DOMAIN s |->
        IF i = 1 \/ s[i].nan \/ s[i - 1].nan THEN NanSample(s[i].t)
        ELSE Sample(s[i].t, s[i].v - s[i - 1].v)]

\* Line 31: (len(differenced_series) < 10) | () applies | to a bool and an
\* empty tuple, which Python rejects with TypeError whatever the bool.
LengthTestRaises(short) == TRUE

\* Line 37: differenced_series >= -.5
PositiveMask(d) == [i \in DOMAIN d |-> d[i].v >= -1]

\* Lines 27-44: the outcome of energy_cumulative(s, pct_increase_threshold).
\* pct_over_zero[True] raises KeyError when no difference passes line 37.
EnergyCumulativeCall(s, pct_increase_threshold) ==
    LET d   == NonNan(Diff(s))
        pos == PositiveMask(d)
        cnt == Cardinality({i \in DOMAIN d : pos[i]})
    IN  IF LengthTestRaises(Len(d) < 10)
        THEN [err |-> "TypeError", ret |-> "unset", warned |-> <<>>, d |-> d]
        ELSE IF Len(d) < 10
        THEN [err |-> NoError, ret |-> "None",
              warned |-> <<"The energy time series has a length of zero">>,
              d |-> d]
        ELSE IF cnt = 0
        THEN [err |-> "KeyError", ret |-> "unset", warned |-> <<>>, d |-> d]
        ELSE IF 100 * cnt >= pct_increase_threshold * Len(d)
        THEN [err |-> NoError, ret |-> "True", warned |-> <<>>, d |-> d]
        ELSE [err |-> NoError, ret |-> "False", warned |-> <<>>, d |-> d]

\* The variables of the data_shifts.py calls, idle during the other calls.
DataShiftsVars ==
    <<time_series, is_datetime, time_series_filtered, seasonality_rmv,
      time_series_processed, algo, result, mask, passing_dates_dict, heap>>

\* A call of energy_cumulative or of correct_cumulative_energy.
InitEnergy ==
    /\ pc \in {"energy_start", "correct_start"}
    /\ energy_series \in EnergyInputs
    /\ differenced_series = <<>>
    /\ returned = [kind |-> "unset", series |-> <<>>]
    /\ time_series = <<>>
    /\ is_datetime = FALSE
    /\ heap = [name |-> <<>>, ref |-> <<>>]
    /\ kw = <<>>
    /\ DataShiftsIdle
    /\ ShiftsIdle
    /\ DstIdle
    /\ err = NoError
    /\ warnings = <<>>

\* energy_cumulative(energy_series, pct_increase_threshold), lines 27-44.
EnergyCumulative ==
    /\ pc = "energy_start"
    /\ steps' = Append(steps, "energy_cumulative")
    /\ \E thr \in Thresholds :
          LET c == EnergyCumulativeCall(energy_series, thr)
          IN  /\ kw' = kw @@ ("pct_increase_threshold" :> thr)
              /\ differenced_series' = c.d
              /\ warnings' = warnings \o c.warned
              /\ IF c.err # NoError
                 THEN Raise(c.err) /\ returned' = returned
                 ELSE /\ returned' = [kind |-> c.ret, series |-> <<>>]
                      /\ pc' = "energy_done"
                      /\ err' = err
    /\ UNCHANGED <<energy_series, DataShiftsVars, measured_time_of_day,
                   modeled_time_of_day, break_points, shift_amount,
                   shift_mask, sunrise, transition_dates, dst_mask>>

\* correct_cumulative_energy(energy_series, pct_increase_threshold), lines
\* 67-74: the differences when energy_cumulative answered True, otherwise
\* the series it was given.
CorrectCumulativeEnergy ==
    /\ pc = "correct_start"
    /\ steps' = steps \o <<"correct_cumulative_energy", "energy_cumulative">>
    /\ \E thr \in Thresholds :
          LET c == EnergyCumulativeCall(energy_series, thr)
          IN  /\ kw' = kw @@ ("pct_increase_threshold" :> thr)
              /\ differenced_series' = c.d
              /\ warnings' = warnings \o c.warned
              /\ IF c.err # NoError
                 THEN Raise(c.err) /\ returned' = returned
                 ELSE /\ returned' =
                            IF c.ret = "True"
                            THEN [kind |-> "diff",
                                  series |-> Diff(energy_series)]
                            ELSE [kind |-> "same", series |-> energy_series]
                      /\ pc' = "correct_done"
                      /\ err' = err
    /\ UNCHANGED <<energy_series, DataShiftsVars, measured_time_of_day,
                   modeled_time_of_day, break_points, shift_amount,
                   shift_mask, sunrise, transition_dates, dst_mask>>

NextEnergy ==
    \/ EnergyCumulative
    \/ CorrectCumulativeEnergy

SpecEnergy == InitEnergy /\ [][NextEnergy]_vars

\* A call of any of the four functions.
InitCalls == Init \/ InitEnergy

NextCalls ==
    \/ Next
    \/ NextEnergy

SpecCalls == InitCalls /\ [][NextCalls]_vars

(***************************************************************************)
(* shifts_ruptures.  pvanalytics/quality/time.py is not among the sources: *)
(* the function is modelled from section 4.5 of the specification and from *)
(* its tests in tests/quality/test_time.py.  A time-of-day series is       *)
(* [tz, v]: the timezone of its index and its values in minutes, one per   *)
(* day; both series of a call cover the same days.                         *)
(***************************************************************************)
Abs(x) == IF x < 0 THEN -x ELSE x

Sign(x) == IF x < 0 THEN -1 ELSE IF x > 0 THEN 1 ELSE 0

\* Mid-day of n consecutive days (the fixture midday).
TimeOfDaySeries(n, tz) == [tz |-> tz, v |-> [i \in 1..n |-> 720 + i]]

\* _shift_between(series, shift, start, end) of the tests.
ShiftBetween(series, shift, a, b) ==
    [series EXCEPT !.v = [i \in DOMAIN series.v |->
                             IF a <= i /\ i <= b THEN series.v[i] + shift
                             ELSE series.v[i]]]

\* Minutes by which the tests shift a range of days.
ShiftSizes == {-60, 8, 30}

\* The measured series of a call: the modeled one, unshifted or shifted over
\* a range of days, on a timezone-aware or a naive index.
MeasuredInputs(n) ==
    {TimeOfDaySeries(n, tz) : tz \in {"MST", "None"}} \cup
    {ShiftBetween(TimeOfDaySeries(n, tz), sh, a, b) :
        tz \in {"MST", "None"}, sh \in ShiftSizes, a \in 1..n, b \in 1..n}

PeriodMins == 1..(MaxShiftLen \div 2 + 1)
Units == {15, 30}
ShiftMins == {15, 30, 60}

\* Mutant of Residual: the modeled series is not subtracted.
Residual_Measured(measured, modeled) == measured.v

\* Step 1: measured - modeled.
Residual(measured, modeled) ==
    [i \in DOMAIN measured.v |-> measured.v[i] - modeled.v[i]]

\* Mutant of PeriodTooLong: half the series length is refused as well.
PeriodTooLong_Half(period_min, n) == 2 * period_min >= n

\* Step 2: period_min exceeds half the series length.
PeriodTooLong(period_min, n) == 2 * period_min > n

\* Step 2: what the search may return on n values, every segment at least
\* period_min long, closed by n.
Segmentations(n, period_min) ==
    {SetToSeq(S \cup {n}) :
        S \in {T \in SUBSET (period_min..(n - period_min)) :
                  \A a, b \in T : a < b => b - a >= period_min}}

\* The values of the segment of position i: the positions after the last
\* breakpoint below i up to the first breakpoint not below i.
SegmentValues(res, bkps, i) ==
    LET lo == SeqMax({0} \cup {b \in Range(bkps) : b < i})
        hi == SeqMin({b \in Range(bkps) : b >= i})
    IN  SubSeq(res, lo + 1, hi)

\* Mutant of RoundMultiple2: up_from is ignored, every value goes to the
\* nearest multiple.
RoundMultiple2_Nearest(x2, m, up_from2) ==
    LET q  == Abs(x2) \div (2 * m)
        r2 == Abs(x2) % (2 * m)
    IN  Sign(x2) * (q * m + (IF r2 >= m THEN m ELSE 0))

\* _round_multiple(x, m, up_from) for x = x2 / 2 and up_from = up_from2 / 2:
\* the multiple of m below |x|, or the next one when the remainder reaches
\* up_from, signed as x.
RoundMultiple2(x2, m, up_from2) ==
    LET q  == Abs(x2) \div (2 * m)
        r2 == Abs(x2) % (2 * m)
    IN  Sign(x2) * (q * m + (IF r2 >= up_from2 THEN m ELSE 0))

\* Step 3: the median residual of the segment, rounded to the unit; up_from
\* is left at its default, half the unit.
RoundedShift(res, bkps, i, unit) ==
    RoundMultiple2(Median2(SegmentValues(res, bkps, i)), unit, unit)

\* Mutant of ApplyShiftMin: a magnitude equal to shift_min is dropped too.
ApplyShiftMin_Inclusive(x, shift_min) == IF Abs(x) <= shift_min THEN 0 ELSE x

\* Step 4: a magnitude below shift_min becomes zero.
ApplyShiftMin(x, shift_min) == IF Abs(x) < shift_min THEN 0 ELSE x

\* Step 5: each segment's value on every day of the segment.
ShiftAmount(res, bkps, unit, shift_min) ==
    [i \in DOMAIN res |->
        ApplyShiftMin(RoundedShift(res, bkps, i, unit), shift_min)]

ShiftsVars ==
    <<measured_time_of_day, modeled_time_of_day, break_points, shift_amount,
      shift_mask>>

\* A call of shifts_ruptures.
InitShifts ==
    /\ pc = "shifts_start"
    /\ \E n \in 1..MaxShiftLen :
          /\ modeled_time_of_day = TimeOfDaySeries(n, "MST")
          /\ measured_time_of_day \in MeasuredInputs(n)
    /\ break_points = <<>>
    /\ shift_amount = [tz |-> "unset", v |-> <<>>]
    /\ shift_mask = [tz |-> "unset", v |-> <<>>]
    /\ time_series = <<>>
    /\ is_datetime = FALSE
    /\ heap = [name |-> <<>>, ref |-> <<>>]
    /\ kw = <<>>
    /\ DataShiftsIdle
    /\ EnergyIdle
    /\ DstIdle
    /\ err = NoError
    /\ warnings = <<>>

\* Steps 1 and 2: the residual is searched, unless period_min is refused.
ShiftsSearch ==
    /\ pc = "shifts_start"
    /\ \E period_min \in PeriodMins :
          LET n == Len(measured_time_of_day.v)
          IN  /\ kw' = kw @@ ("period_min" :> period_min)
              /\ IF PeriodTooLong(period_min, n)
                 THEN Raise("ValueError") /\ break_points' = break_points
                 ELSE /\ break_points' \in Segmentations(n, period_min)
                      /\ pc' = "shifts_searched"
                      /\ err' = err
    /\ steps' = Append(steps, "search")
    /\ UNCHANGED <<measured_time_of_day, modeled_time_of_day, shift_amount,
                   shift_mask, warnings, DataShiftsVars, energy_series,
                   differenced_series, returned, sunrise, transition_dates,
                   dst_mask>>

\* Steps 3 to 5: the two results, on the index of the measured series.
ShiftsAssemble ==
    /\ pc = "shifts_searched"
    /\ \E unit \in Units, shift_min \in ShiftMins :
          LET amount == ShiftAmount(Residual(measured_time_of_day,
                                             modeled_time_of_day),
                                    break_points, unit, shift_min)
          IN  /\ kw' = kw @@ ("unit" :> unit) @@ ("shift_min" :> shift_min)
              /\ shift_amount' = [tz |-> measured_time_of_day.tz,
                                  v  |-> amount]
              /\ shift_mask' = [tz |-> measured_time_of_day.tz,
                                v  |-> [i \in DOMAIN amount |-> amount[i] # 0]]
    /\ pc' = "shifts_done"
    /\ steps' = Append(steps, "assemble")
    /\ UNCHANGED <<measured_time_of_day, modeled_time_of_day, break_points,
                   err, warnings, DataShiftsVars, energy_series,
                   differenced_series, returned, sunrise, transition_dates,
                   dst_mask>>

NextShifts ==
    \/ ShiftsSearch
    \/ ShiftsAssemble

SpecShifts == InitShifts /\ [][NextShifts]_vars

(***************************************************************************)
(* has_dst.  Not among the sources either: modelled from section 4.6 of    *)
(* the specification and the tests of has_dst in test_time.py.  The        *)
(* sunrise series covers the days 1..n; nat[d] says that the sample of day *)
(* d is missing (NaT), observes_dst whether the observed times follow the  *)
(* daylight-saving clock; transition_dates are the days of the index on    *)
(* which the offset of the timezone changes.                               *)
(***************************************************************************)
\* Sunrise series of n days.
SunriseInputs(n) ==
    {[observes_dst |-> o, nat |-> m] : o \in BOOLEAN, m \in [1..n -> BOOLEAN]}

\* The transition dates a timezone may have within n days: none (MST), or
\* one or both of two days.
TransitionChoices(n) == SUBSET ({2, n - 1} \cap 1..n)

Windows == {1, 2}
MissingPolicies == {"raise", "warn"}

\* The days of the series in the window before date d, and from d on.
WindowBefore(s, d, window) == {i \in DOMAIN s.nat : d - window <= i /\ i < d}
WindowAfter(s, d, window) == {i \in DOMAIN s.nat : d <= i /\ i < d + window}

\* Mutant of MissingSide: only a date with no data on both sides counts.
MissingSide_Both(s, d, window) ==
    /\ \A i \in WindowBefore(s, d, window) : s.nat[i]
    /\ \A i \in WindowAfter(s, d, window) : s.nat[i]

\* Every sample of the window on one side of d is missing.
MissingSide(s, d, window) ==
    \/ \A i \in WindowBefore(s, d, window) : s.nat[i]
    \/ \A i \in WindowAfter(s, d, window) : s.nat[i]

MissingDates(s, dates, window) ==
    {d \in dates : MissingSide(s, d, window)}

\* The message of the error and of the warning, one per date.
NoDataMessage(d) == <<"No data at", d>>

\* The result: True on a transition date with data on both sides when the
\* observed times shift there, False on every other day.
DstMask(s, dates, window) ==
    [i \in DOMAIN s.nat |->
        i \in dates /\ ~MissingSide(s, i, window) /\ s.observes_dst]

DstVars == <<sunrise, transition_dates, dst_mask>>

\* A call of has_dst.
InitDst ==
    /\ pc = "dst_start"
    /\ \E n \in 1..MaxDstDays :
          /\ sunrise \in SunriseInputs(n)
          /\ transition_dates \in TransitionChoices(n)
    /\ dst_mask = <<>>
    /\ time_series = <<>>
    /\ is_datetime = FALSE
    /\ heap = [name |-> <<>>, ref |-> <<>>]
    /\ kw = <<>>
    /\ DataShiftsIdle
    /\ EnergyIdle
    /\ ShiftsIdle
    /\ err = NoError
    /\ warnings = <<>>

\* has_dst(sunrise, tz, window, missing).
HasDst ==
    /\ pc = "dst_start"
    /\ \E window \in Windows, missing \in MissingPolicies :
          LET lost == MissingDates(sunrise, transition_dates, window)
          IN  /\ kw' = kw @@ ("window" :> window) @@ ("missing" :> missing)
              /\ IF lost # {} /\ missing = "raise"
                 THEN /\ Raise("ValueError")
                      /\ UNCHANGED <<dst_mask, warnings>>
                 ELSE /\ warnings' =
                            warnings \o [k \in 1..Cardinality(lost) |->
                                            NoDataMessage(SetToSeq(lost)[k])]
                      /\ dst_mask' = DstMask(sunrise, transition_dates, window)
                      /\ pc' = "dst_done"
                      /\ err' = err
    /\ steps' = Append(steps, "has_dst")
    /\ UNCHANGED <<sunrise, transition_dates, DataShiftsVars, energy_series,
                   differenced_series, returned, ShiftsVars>>

NextDst == HasDst

SpecDst == InitDst /\ [][NextDst]_vars

(***************************************************************************)
(* Properties.                                                             *)
(***************************************************************************)
\* detect_data_shifts returned its mask.
Returned == pc \in {"returned", "segment_done"}

\* The search was constructed (lines 196-208 were reached).
SearchRan == "method" \in DOMAIN kw

\* predict returned its breakpoints.
SearchReturned == pc \in {"searched", "returned", "segment_done"}

Flagged == {i \in DOMAIN mask : mask[i].b}

MaskAt(t) == \E i \in DOMAIN mask : mask[i].t = t /\ mask[i].b

Processed == time_series_processed.s

NoShift == Flagged = {}

\* C1: whenever detect_data_shifts returns, the mask has exactly the index
\* of the input series: the same length and the same timestamps in the same
\* order, whatever the filter, drop_duplicates and dropna removed.
C1_MaskIndexIsInputIndex ==
    Returned =>
        /\ Len(mask) = Len(time_series)
        /\ \A i \in DOMAIN mask : mask[i].t = time_series[i].t

\* A returned mask of a call in which the filter, drop_duplicates and dropna
\* each removed a sample.
C1_Witness ==
    /\ pc = "returned"
    /\ Len(ErroneousFilter(time_series)) < Len(time_series)
    /\ Len(time_series_filtered.s) < Len(ErroneousFilter(time_series))
    /\ Len(NonNan(Processed)) < Len(Processed)

\* C2: with filtering=False a call on a valid daily series does not fail
\* for the filter being disabled: de-duplication runs on the unfiltered
\* series and the call goes on.
C2_FilteringOffRuns ==
    ("filtering" \in DOMAIN kw /\ ~kw.filtering /\ pc # "filter_done") =>
        /\ ~(pc = "error" /\ err = "UnboundLocalError")
        /\ time_series_filtered = [bound |-> TRUE,
                                   s |-> DropDuplicates(time_series)]

\* C3: a series passes the frequency check only when its inferred sampling
\* interval is exactly one day; with any other interval the call raises
\* ValueError in _run_data_checks, before any filtering or search.
C3_OnlyDailyAccepted ==
    (is_datetime /\ pc # "start"
        /\ \A m \in Modes(time_series) : m # HoursPerDay) =>
            /\ pc = "error"
            /\ err = "ValueError"
            /\ steps = <<"checks">>

\* C4: with an index that is not a DatetimeIndex the call raises TypeError
\* in _run_data_checks, and no filtering, de-duplication, preprocessing or
\* search step has run.
C4_TypeErrorBeforeProcessing ==
    (~is_datetime /\ pc # "start") =>
        /\ pc = "error"
        /\ err = "TypeError"
        /\ steps = <<"checks">>
        /\ ~time_series_filtered.bound
        /\ Processed = <<>>
        /\ result = <<>>
        /\ mask = <<>>

C4_Witness == ~is_datetime /\ pc = "error" /\ err = "TypeError"

C6_SuppliedAlwaysUsed ==
    (SearchReturned /\ kw.method # "None" /\ kw.cost # "None") =>
        algo = [method |-> kw.method, model |-> kw.cost, width |-> 0,
                pen |-> kw.penalty]

\* C6, amended: with use_default_models=False the search is constructed from
\* exactly the passed method, cost and penalty; with use_default_models=True
\* the default search is constructed whatever was passed.
C6_SuppliedUsedWhenDefaultsOff ==
    SearchRan =>
        IF kw.use_default_models
        THEN /\ algo.method = (IF seasonality_rmv THEN "rpt.BottomUp"
                               ELSE "rpt.Window")
             /\ algo.model = "rbf"
             /\ algo.pen = (IF seasonality_rmv THEN 40 ELSE 30)
        ELSE algo = [method |-> kw.method, model |-> kw.cost, width |-> 0,
                     pen |-> kw.penalty]

\* A search run from passed arguments that differ from both defaults.
C6_Witness ==
    /\ pc = "searched"
    /\ ~kw.use_default_models
    /\ kw.method = "rpt.Binseg"
    /\ kw.penalty = 10
    /\ algo.pen = 10

\* C7: the returned mask flags neither the first nor the last sample of the
\* processed series, nor of the searched (NaN-free) sequence, and the
\* end-of-signal marker len(points) is not among the breakpoints the mask is
\* built from.
C7_NoBreakAtEnds ==
    (Returned /\ Processed # <<>>) =>
        LET points == NonNan(Processed)
        IN  /\ Len(points) \notin Range(result)
            /\ 0 \notin Range(result)
            /\ ~MaskAt(Processed[1].t)
            /\ ~MaskAt(Processed[Len(Processed)].t)
            /\ ~MaskAt(points[1].t)
            /\ ~MaskAt(points[Len(points)].t)

\* A returned mask with a flagged date, of a call whose processed series
\* held a NaN (the marker is then a valid position of the mask).
C7_Witness ==
    /\ pc = "returned"
    /\ Flagged # {}
    /\ Len(NonNan(Processed)) < Len(Processed)

\* C8: in the returned mask every input timestamp that is not in the
\* processed series is False, the True entries are exactly the dates at the
\* retained breakpoint positions of the processed series, and there are as
\* many of them as retained breakpoints.
C8_MaskMarksBreakpoints ==
    Returned =>
        /\ \A i \in DOMAIN time_series :
               (time_series[i].t \notin Range(Times(Processed))) => ~mask[i].b
        /\ {mask[i].t : i \in Flagged} =
               {Processed[r + 1].t : r \in Range(result)}
        /\ Cardinality(Flagged) = Len(result)

\* A returned mask with a flagged date and a removed input sample.
C8_Witness ==
    /\ pc = "returned"
    /\ Len(result) >= 1
    /\ Len(Processed) < Len(time_series)

\* C9 as stated: with no changepoint flagged the whole span of the series
\* is returned, no buffer applied.
C9_NoShiftNoBuffer ==
    (pc = "segment_done" /\ NoShift) =>
        /\ passing_dates_dict.start_date = time_series[1].t
        /\ passing_dates_dict.end_date = time_series[Len(time_series)].t

\* C9, amended: with no changepoint flagged the span of the series is
\* shortened by the buffer at both ends like any other segment; it is
\* returned unmodified exactly when buffer_day_length is 0.
C9_NoShiftBufferStillApplied ==
    (pc = "segment_done" /\ NoShift) =>
        LET first == SeqMin(Range(Times(time_series)))
            last  == SeqMax(Range(Times(time_series)))
            d     == passing_dates_dict
        IN  /\ d.start_date - first = kw.buffer_day_length * HoursPerDay
            /\ last - d.end_date = kw.buffer_day_length * HoursPerDay
            /\ (d.start_date = first /\ d.end_date = last)
                   <=> (kw.buffer_day_length = 0)

\* A shift-free result computed with a passed, non-zero buffer.
C9_Witness ==
    /\ pc = "segment_done"
    /\ NoShift
    /\ ~kw.buffer_omitted
    /\ kw.buffer_day_length > 0

\* C10: on a shift-free series the result is start_date = index.min() +
\* buffer_day_length days and end_date = index.max() - buffer_day_length
\* days, the buffer being 7 days when the caller passes none.
C10_ShiftFreeDates ==
    (pc = "segment_done" /\ NoShift) =>
        LET buffer == IF kw.buffer_omitted THEN 7 ELSE kw.buffer_day_length
        IN  /\ passing_dates_dict.start_date =
                   SeqMin(Range(Times(time_series))) + buffer * HoursPerDay
            /\ passing_dates_dict.end_date =
                   SeqMax(Range(Times(time_series))) - buffer * HoursPerDay

\* A shift-free result computed with the default buffer.
C10_Witness ==
    /\ pc = "segment_done"
    /\ NoShift
    /\ kw.buffer_omitted
    /\ passing_dates_dict.start_date = time_series[1].t + 7 * HoursPerDay

\* Positions a..b of the mask form one segment: a is the first position or
\* a flagged one, no position after a up to b is flagged, and b is the last
\* position or the one before a flagged position.
IsSegment(a, b) ==
    /\ a <= b
    /\ a = 1 \/ mask[a].b
    /\ \A i \in (a + 1)..b : ~mask[i].b
    /\ b = Len(mask) \/ mask[b + 1].b

\* C11: get_longest_shift_segment_dates numbers the segments by the running
\* sum of the mask, so that each True opens a new segment; it returns, for a
\* segment no other segment has more members than, the earliest date plus
\* buffer_day_length days and the latest date minus buffer_day_length days.
C11_LongestSegmentDates ==
    pc = "segment_done" =>
        /\ \A i \in DOMAIN mask :
               IntervalId(mask)[i] =
                   (IF i = 1 THEN 0 ELSE IntervalId(mask)[i - 1])
                       + (IF mask[i].b THEN 1 ELSE 0)
        /\ \E a, b \in DOMAIN mask :
               /\ IsSegment(a, b)
               /\ \A c, d \in DOMAIN mask :
                      IsSegment(c, d) => d - c <= b - a
               /\ passing_dates_dict.start_date =
                      mask[a].t + kw.buffer_day_length * HoursPerDay
               /\ passing_dates_dict.end_date =
                      mask[b].t - kw.buffer_day_length * HoursPerDay

\* A result taken from a segment that a flagged date opens, longer than the
\* segment before the first flag.
C11_Witness ==
    /\ pc = "segment_done"
    /\ \E a \in Flagged :
          /\ passing_dates_dict.start_date =
                 mask[a].t + kw.buffer_day_length * HoursPerDay
          /\ \A i \in Flagged : a <= i
          /\ Cardinality(Members(mask, 0)) < Cardinality(Members(mask, 1))

\* C12: with use_default_models=False, a method that is not a search class
\* (the string "Pelt", or None) makes detect_data_shifts raise TypeError,
\* and a cost the library does not know, passed with a search class, makes
\* it raise ValueError; in both cases no mask is returned.
C12_UnrecognizedConfigRaises ==
    (SearchRan /\ ~kw.use_default_models) =>
        /\ (kw.method \notin {"rpt.Window", "rpt.BottomUp", "rpt.Binseg"}) =>
               (pc = "error" /\ err = "TypeError" /\ mask = <<>>)
        /\ (/\ kw.method \in {"rpt.Window", "rpt.BottomUp", "rpt.Binseg"}
            /\ kw.cost \notin {"rbf", "l2"}) =>
               (pc = "error" /\ err = "ValueError" /\ mask = <<>>)

\* The call of the test suite with the string "Pelt" as method has raised.
C12_Witness ==
    /\ SearchRan
    /\ ~kw.use_default_models
    /\ kw.method = "str:Pelt"
    /\ pc = "error"
    /\ steps = <<"checks", "filter", "dedup", "preprocess", "search">>

\* time_series.max() == time_series.min() on a series holding a value.
Flat(s) ==
    /\ Vals(s) # <<>>
    /\ SeqMax(Range(Vals(s))) = SeqMin(Range(Vals(s)))

\* C13 as stated: once the preprocessor has been called on a flat filtered
\* series the call has failed with DegenerateRangeError, and no normalized
\* series was returned.
C13_FlatRaisesDegenerateRange ==
    ("preprocess" \in Range(steps) /\ Flat(time_series_filtered.s)) =>
        /\ pc = "error"
        /\ err = "DegenerateRangeError"
        /\ Processed = <<>>

\* C14 as stated: whenever detect_data_shifts returns its mask having
\* skipped seasonality removal, a warning has been issued to the caller.
C14_SkipIsWarned ==
    (Returned /\ ~seasonality_rmv) => warnings # <<>>

\* C15: no step of detect_data_shifts, get_longest_shift_segment_dates,
\* energy_cumulative or correct_cumulative_energy, returning or raising,
\* changes the caller's series: its values and timestamps, the Index object
\* it holds and that object's name stay as they were.
C15_CallerSeriesUnchanged ==
    [][/\ time_series' = time_series
       /\ energy_series' = energy_series
       /\ pc \in {"start", "checked", "filter_done", "dedup_done",
                  "preprocessed", "searched", "returned"} =>
              /\ heap'.ref["time_series"] = heap.ref["time_series"]
              /\ IndexName(heap', "time_series") =
                     IndexName(heap, "time_series")]_vars

\* detect_data_shifts has returned after naming the index of its processed
\* series at line 213, the caller's index still carrying its own name.
C15_Witness ==
    /\ pc = "returned"
    /\ IndexName(heap, "time_series_processed") = "datetime"
    /\ IndexName(heap, "time_series") = "None"
    /\ Len(time_series) > 0

\* C16: shifts_ruptures on a measured series equal to the modeled one
\* returns a mask that is False and an amount that is 0 on every day, both
\* on the index of the measured series, whatever segmentation the search
\* returned and whatever admissible period_min was passed.
C16_IdenticalSeriesNoShift ==
    (pc = "shifts_done"
        /\ measured_time_of_day.v = modeled_time_of_day.v) =>
        /\ Len(shift_amount.v) = Len(measured_time_of_day.v)
        /\ Len(shift_mask.v) = Len(measured_time_of_day.v)
        /\ shift_amount.tz = measured_time_of_day.tz
        /\ shift_mask.tz = measured_time_of_day.tz
        /\ \A i \in DOMAIN shift_amount.v :
               shift_amount.v[i] = 0 /\ ~shift_mask.v[i]

\* Identical series, split by the search at half their length with
\* period_min at that half, on a measured index that is naive.
C16_Witness ==
    /\ pc = "shifts_done"
    /\ measured_time_of_day.v = modeled_time_of_day.v
    /\ measured_time_of_day.tz # modeled_time_of_day.tz
    /\ Len(break_points) = 2
    /\ 2 * kw.period_min = Len(measured_time_of_day.v)

\* C17: in the results of shifts_ruptures a segment whose rounded shift is
\* below shift_min in absolute value has amount 0 and mask False, a segment
\* whose rounded shift reaches shift_min (equality included) keeps it, so
\* every non-zero amount is at least shift_min in absolute value, and the
\* mask is True exactly where the amount is not 0.
C17_ShiftMinSuppresses ==
    pc = "shifts_done" =>
        \A i \in DOMAIN shift_amount.v :
            LET r == RoundedShift(Residual(measured_time_of_day,
                                           modeled_time_of_day),
                                  break_points, i, kw.unit)
            IN  /\ (Abs(r) < kw.shift_min) =>
                       (shift_amount.v[i] = 0 /\ ~shift_mask.v[i])
                /\ (Abs(r) >= kw.shift_min) => shift_amount.v[i] = r
                /\ (shift_amount.v[i] # 0) =>
                       Abs(shift_amount.v[i]) >= kw.shift_min
                /\ shift_mask.v[i] = (shift_amount.v[i] # 0)

\* One result with a segment whose rounded shift, 15, is below shift_min
\* and suppressed, and a segment whose rounded shift equals shift_min, kept.
C17_Witness ==
    /\ pc = "shifts_done"
    /\ kw.shift_min = 30
    /\ \E i \in DOMAIN shift_amount.v :
          /\ RoundedShift(Residual(measured_time_of_day, modeled_time_of_day),
                          break_points, i, kw.unit) = 15
          /\ shift_amount.v[i] = 0
    /\ \E i \in DOMAIN shift_amount.v : shift_amount.v[i] = 30

\* C18: shifts_ruptures raises ValueError and returns nothing whenever
\* period_min is more than half the series length; a period_min of exactly
\* half the length, or less, is accepted.
C18_PeriodMinOverHalfRaises ==
    ("period_min" \in DOMAIN kw) =>
        LET n == Len(measured_time_of_day.v)
        IN  /\ (2 * kw.period_min > n) =>
                   /\ pc = "error"
                   /\ err = "ValueError"
                   /\ shift_amount.tz = "unset"
                   /\ shift_mask.tz = "unset"
            /\ (2 * kw.period_min <= n) =>
                   (pc \in {"shifts_searched", "shifts_done"} /\ err = NoError)

\* A call refused with period_min one half-step over half the length.
C18_Witness ==
    /\ pc = "error"
    /\ err = "ValueError"
    /\ "period_min" \in DOMAIN kw
    /\ 2 * kw.period_min = Len(measured_time_of_day.v) + 1

\* C19: when every sample of the window before, or of the window from, a
\* transition date is missing, has_dst raises ValueError under the default
\* policy and returns nothing; under missing='warn' it warns, leaves that
\* date False and returns a mask on the whole index of its input; when both
\* windows of every transition date hold a sample it neither raises nor
\* warns.
C19_MissingWindowRaisesOrWarns ==
    ("missing" \in DOMAIN kw) =>
        LET n    == Len(sunrise.nat)
            w    == kw.window
            lost == {d \in transition_dates :
                        \/ \A i \in 1..n : (d - w <= i /\ i < d) =>
                                               sunrise.nat[i]
                        \/ \A i \in 1..n : (d <= i /\ i < d + w) =>
                                               sunrise.nat[i]}
        IN  /\ (lost # {} /\ kw.missing = "raise") =>
                   /\ pc = "error"
                   /\ err = "ValueError"
                   /\ dst_mask = <<>>
                   /\ warnings = <<>>
            /\ (lost # {} /\ kw.missing = "warn") =>
                   /\ pc = "dst_done"
                   /\ warnings # <<>>
                   /\ Len(dst_mask) = n
                   /\ \A d \in lost : ~dst_mask[d]
            /\ (lost = {}) =>
                   /\ pc = "dst_done"
                   /\ err = NoError
                   /\ warnings = <<>>
                   /\ Len(dst_mask) = n

\* Under 'warn', one transition date with data after it but none before is
\* warned about and left False while the other date is found True.
C19_Witness ==
    /\ pc = "dst_done"
    /\ kw.missing = "warn"
    /\ Len(warnings) = 1
    /\ \E d \in transition_dates :
          /\ ~dst_mask[d]
          /\ ~sunrise.nat[d]
          /\ \A i \in WindowBefore(sunrise, d, kw.window) : sunrise.nat[i]
    /\ \E d \in transition_dates : dst_mask[d]

\* C20 as stated: a call whose search would use a passed penalty of zero or
\* less ends in an InvalidParameter error, no search having run with it.
C20_NonPositivePenaltyRejected ==
    (SearchRan /\ ~kw.use_default_models /\ kw.penalty <= 0) =>
        /\ pc = "error"
        /\ err = "InvalidParameter"
        /\ result = <<>>

\* C21 as stated: on a series with at least 10 differences, a call of
\* energy_cumulative has not raised; it has returned True when the share of
\* differences >= -0.5 reaches pct_increase_threshold and False otherwise,
\* also when no difference is >= -0.5.
C21_ReturnsBooleanOnTenDifferences ==
    (steps = <<"energy_cumulative">>
        /\ Len(NonNan(Diff(energy_series))) >= 10) =>
        LET d   == NonNan(Diff(energy_series))
            cnt == Cardinality({i \in DOMAIN d : d[i].v >= -1})
        IN  /\ pc = "energy_done"
            /\ err = NoError
            /\ returned.kind =
                   (IF 100 * cnt >= kw.pct_increase_threshold * Len(d)
                    THEN "True" ELSE "False")

(***************************************************************************)
(* _erroneous_filter on its own, on series that also hold zeros, repeats   *)
(* and a stale run.                                                        *)
(***************************************************************************)
\* Values of a sample: 0, 1, 2, 3 or NaN.
FilterValueSeqs(n) ==
    [1..n -> {[v |-> 0, nan |-> FALSE], [v |-> 1, nan |-> FALSE],
              [v |-> 2, nan |-> FALSE], [v |-> 3, nan |-> FALSE],
              [v |-> 0, nan |-> TRUE]}]

\* The series on n consecutive days holding the values c.
FilterSeries(n, c) ==
    [i \in 1..n |-> [t |-> IndexOf(n, HoursPerDay, 0)[i], v |-> c[i].v,
                     nan |-> c[i].nan]]

\* A call of _erroneous_filter(time_series).
InitFilter ==
    /\ pc = "filter_call"
    /\ \E n \in 1..MaxFilterLen :
          \E c \in FilterValueSeqs(n) : time_series = FilterSeries(n, c)
    /\ is_datetime = TRUE
    /\ heap = [name |-> <<"None">>, ref |-> [time_series |-> 1]]
    /\ kw = <<>>
    /\ DataShiftsIdle
    /\ EnergyIdle
    /\ ShiftsIdle
    /\ DstIdle
    /\ err = NoError
    /\ warnings = <<>>

\* Lines 58-69.
ApplyFilter ==
    /\ pc = "filter_call"
    /\ time_series_filtered' =
           [bound |-> TRUE, s |-> ErroneousFilter(time_series)]
    /\ heap' = TakeIndex(heap, "time_series", "time_series_filtered")
    /\ steps' = Append(steps, "filter")
    /\ pc' = "filter_returned"
    /\ UNCHANGED <<time_series, is_datetime, kw, seasonality_rmv,
                   time_series_processed, algo, result, mask,
                   passing_dates_dict, err, warnings, others>>

NextFilter == ApplyFilter

SpecFilter == InitFilter /\ [][NextFilter]_vars

\* C22 as stated: the filter returns exactly the samples, timestamp and
\* value unchanged, that are not marked stale, hold a value above 0 and lie
\* within the band from the 1st to the 99th percentile of the input, a
\* value equal to an edge of the band being kept.
C22_FilterKeepsClosedBand ==
    pc = "filter_returned" =>
        LET s    == time_series
            srt  == SortAsc(Vals(s))
            keep == [i \in DOMAIN s |->
                        /\ ~StaleMask(s)[i]
                        /\ ~s[i].nan
                        /\ s[i].v > 0
                        /\ 100 * s[i].v >= Quantile100(srt, 1)
                        /\ 100 * s[i].v <= Quantile100(srt, 99)]
        IN  time_series_filtered.s = SelectIdx(s, keep, 1)

\* The series line 179 reads: the output of the filter.
Deduplicated == "dedup" \in Range(steps)

\* C23 as stated: line 179 removes a sample only when its value repeats the
\* value of the sample just before it; a value recurring after other values
\* is kept at both dates.
C23_OnlyAdjacentRepeatsRemoved ==
    Deduplicated =>
        LET f == ErroneousFilter(time_series)
        IN  time_series_filtered.s =
                SelectIdx(f, [i \in DOMAIN f |->
                                 ~(i > 1 /\ SameValue(f[i - 1], f[i]))], 1)

\* C23, amended: line 179 keeps, of every value of the filtered series, the
\* sample of its first date and removes every later sample of that value,
\* adjacent to it or not, so that no value occurs twice afterwards.
C23_FirstOccurrenceKept ==
    Deduplicated =>
        LET f   == ErroneousFilter(time_series)
            out == time_series_filtered.s
        IN  /\ \A i, j \in DOMAIN out :
                   SameValue(out[i], out[j]) => i = j
            /\ \A i \in DOMAIN f :
                   (\E k \in DOMAIN out : out[k] = f[i]) <=>
                       (\A j \in 1..(i - 1) : ~SameValue(f[j], f[i]))
            /\ \A i, j \in DOMAIN out : i < j => out[i].t < out[j].t

\* A filtered series in which a value recurs after a different value, its
\* later sample removed by line 179.
C23_Witness ==
    /\ pc = "dedup_done"
    /\ LET f == ErroneousFilter(time_series)
       IN  \E i, j \in DOMAIN f :
              /\ j + 1 < i
              /\ SameValue(f[j], f[i])
              /\ ~f[i].nan
              /\ \A k \in (j + 1)..(i - 1) : ~SameValue(f[k], f[i])
              /\ f[i].t \notin Range(Times(time_series_filtered.s))

(***************************************************************************)
(* _preprocess_data called alone, on series around the end of February.    *)
(***************************************************************************)
\* Days since 1970-01-01 of 2016-02-28, 2016-02-29, 2016-03-01, 2017-02-28,
\* 2017-03-01 and 2020-02-29.
SeasonDays == <<16859, 16860, 16861, 17225, 17226, 18321>>

\* The positions of SeasonDays that are a 29th of February.
LeapPositions == {2, 6}

\* Per day of SeasonDays: a value 0..MaxSeasonVal, a missing value
\* (MaxSeasonVal + 1) or no sample on that day (MaxSeasonVal + 2).
SeasonChoices == [DOMAIN SeasonDays -> 0..(MaxSeasonVal + 2)]

SeasonSeries(c) ==
    SelectIdx([i \in DOMAIN SeasonDays |->
                  IF c[i] > MaxSeasonVal
                  THEN NanSample(SeasonDays[i] * HoursPerDay)
                  ELSE Sample(SeasonDays[i] * HoursPerDay, c[i])],
              [i \in DOMAIN SeasonDays |-> c[i] <= MaxSeasonVal + 1], 1)

\* A call of _preprocess_data(time_series, remove_seasonality).
InitSeason ==
    /\ pc = "preprocess_call"
    /\ \E c \in SeasonChoices : time_series = SeasonSeries(c)
    /\ \E b \in BOOLEAN : kw = [remove_seasonality |-> b]
    /\ is_datetime = TRUE
    /\ heap = [name |-> <<"None">>, ref |-> [time_series |-> 1]]
    /\ DataShiftsIdle
    /\ EnergyIdle
    /\ ShiftsIdle
    /\ DstIdle
    /\ err = NoError
    /\ warnings = <<>>

\* Lines 96-112.
ApplyPreprocess ==
    /\ pc = "preprocess_call"
    /\ time_series_processed' =
           PreprocessData(time_series, kw.remove_seasonality)
    /\ heap' = ShareIndex(heap, "time_series", "time_series_processed")
    /\ steps' = Append(steps, "preprocess")
    /\ pc' = "preprocess_returned"
    /\ UNCHANGED <<time_series, is_datetime, kw, time_series_filtered,
                   seasonality_rmv, algo, result, mask, passing_dates_dict,
                   err, warnings, others>>

NextSeason == ApplyPreprocess

SpecSeason == InitSeason /\ [][NextSeason]_vars

\* _preprocess_data has returned from a call with remove_seasonality=True.
SeasonalityRemoved ==
    pc = "preprocess_returned" /\ kw.remove_seasonality

\* The samples of q on the same calendar month and day as q[i].
MonthDayGroup(q, i) ==
    SelectIdx(q, [j \in DOMAIN q |->
                     <<MonthOf(q[j].t), DayOf(q[j].t)>> =
                         <<MonthOf(q[i].t), DayOf(q[i].t)>>], 1)

\* The samples of q on a 29th of February.
LeapDaySamples(q) ==
    SelectIdx(q, [j \in DOMAIN q |->
                     \E p \in LeapPositions :
                         q[j].t = SeasonDays[p] * HoursPerDay], 1)

\* C24: with remove_seasonality=True every normalized sample has the median
\* of the normalized samples of its (month, day), taken over all years,
\* subtracted (a missing sample stays missing); the samples of 29 February
\* are a group of their own; so every (month, day) group of the output has
\* median 0 and a sample alone in its group becomes 0.
C24_SeasonalBaselineByMonthDay ==
    SeasonalityRemoved =>
        LET n   == Normalize(time_series)
            out == time_series_processed
        IN  /\ Len(out.s) = Len(n.s)
            /\ out.den = 2 * n.den
            /\ \A i \in DOMAIN n.s :
                  /\ out.s[i].t = n.s[i].t
                  /\ out.s[i].nan = n.s[i].nan
                  /\ ~n.s[i].nan =>
                        /\ out.s[i].v =
                               2 * n.s[i].v
                                   - Median2(Vals(MonthDayGroup(n.s, i)))
                        /\ Median2(Vals(MonthDayGroup(out.s, i))) = 0
                        /\ Len(Vals(MonthDayGroup(n.s, i))) = 1 =>
                               out.s[i].v = 0
                        /\ n.s[i] \in Range(LeapDaySamples(n.s)) =>
                               MonthDayGroup(n.s, i) = LeapDaySamples(n.s)

\* A returned call on a series with samples on 28 and 29 February 2016 of
\* different values, a second 29 February that moves the leap-day baseline
\* off both leap-day values, and a sample alone on its day that is not the
\* minimum of the series.
C24_Witness ==
    /\ SeasonalityRemoved
    /\ LET n   == Normalize(time_series)
           out == time_series_processed
       IN  \E i, j, k, l \in DOMAIN n.s :
              /\ n.s[i].t = SeasonDays[1] * HoursPerDay
              /\ n.s[j].t = SeasonDays[2] * HoursPerDay
              /\ n.s[k].t = SeasonDays[6] * HoursPerDay
              /\ ~n.s[i].nan /\ ~n.s[j].nan /\ ~n.s[k].nan /\ ~n.s[l].nan
              /\ n.s[i].v # n.s[j].v
              /\ out.s[j].v # 0
              /\ out.s[k].v = -out.s[j].v
              /\ Len(MonthDayGroup(n.s, l)) = 1
              /\ n.s[l].v > 0
              /\ out.s[l].v = 0

(***************************************************************************)
(* _round_multiple called alone.                                           *)
(***************************************************************************)
\* The series of test_rounding and the results it expects, per multiple
\* and up_from (0: up_from is not passed).
TestXs == <<-10, 10, -16, 16, -28, 28, -30, 30, -8, 8, -7, 7, -3, 3, 0>>

TestRounding ==
    {[to |-> 15, up_from |-> 0, expected |->
         <<-15, 15, -15, 15, -30, 30, -30, 30, -15, 15, 0, 0, 0, 0, 0>>],
     [to |-> 15, up_from |-> 9, expected |->
         <<-15, 15, -15, 15, -30, 30, -30, 30, 0, 0, 0, 0, 0, 0, 0>>],
     [to |-> 15, up_from |-> 15, expected |->
         <<0, 0, -15, 15, -15, 15, -30, 30, 0, 0, 0, 0, 0, 0, 0>>],
     [to |-> 30, up_from |-> 0, expected |->
         <<0, 0, -30, 30, -30, 30, -30, 30, 0, 0, 0, 0, 0, 0, 0>>]}

\* The values of up_from: not passed (0), those of the test, and one above
\* the smaller multiple.
UpFroms == {0, 9, 15, 20}

\* Twice the up_from in force: half the multiple when none is passed.
UpFrom2(to, up_from) == IF up_from = 0 THEN to ELSE 2 * up_from

\* A call of _round_multiple(x, to, up_from) on a series of two integers.
InitRound ==
    /\ pc = "round_call"
    /\ \E a, b \in (-MaxRound)..MaxRound, to \in Units, up_from \in UpFroms :
          kw = [x |-> <<a, b>>, to |-> to, up_from |-> up_from]
    /\ time_series = <<>>
    /\ is_datetime = FALSE
    /\ heap = [name |-> <<>>, ref |-> <<>>]
    /\ DataShiftsIdle
    /\ EnergyIdle
    /\ ShiftsIdle
    /\ DstIdle
    /\ err = NoError
    /\ warnings = <<>>

\* The rounded series is returned (held in shift_amount, the variable the
\* rounded values end up in).
RoundCall ==
    /\ pc = "round_call"
    /\ shift_amount' =
           [tz |-> "None",
            v  |-> [i \in DOMAIN kw.x |->
                       RoundMultiple2(2 * kw.x[i], kw.to,
                                      UpFrom2(kw.to, kw.up_from))]]
    /\ steps' = Append(steps, "round_multiple")
    /\ pc' = "round_returned"
    /\ UNCHANGED <<kw, measured_time_of_day, modeled_time_of_day,
                   break_points, shift_mask, err, warnings, DataShiftsVars,
                   energy_series, differenced_series, returned, sunrise,
                   transition_dates, dst_mask>>

NextRound == RoundCall

SpecRound == InitRound /\ [][NextRound]_vars

\* What the statement of _round_multiple's rule gives for x, with the
\* remainder and up_from doubled: up_from == m/2 when none is passed.
StatedRounding(x, m, up_from) ==
    LET q == Abs(x) \div m
        r == Abs(x) % m
    IN  IF 2 * r >= UpFrom2(m, up_from) THEN Sign(x) * (q * m + m)
        ELSE Sign(x) * q * m

\* The parts of the rule that do not depend on the size of up_from: the
\* result is odd in x, a multiple of m, follows the stated formula, maps 0
\* to 0, and agrees with test_rounding.
RoundingRule ==
    LET x == kw.x
        y == shift_amount.v
    IN  /\ DOMAIN y = DOMAIN x
        /\ \A i \in DOMAIN x :
              /\ Abs(y[i]) % kw.to = 0
              /\ y[i] = StatedRounding(x[i], kw.to, kw.up_from)
              /\ x[i] = 0 => y[i] = 0
              /\ \A j \in DOMAIN x : x[j] = -x[i] => y[j] = -y[i]
              /\ \A e \in TestRounding : \A k \in DOMAIN TestXs :
                    (e.to = kw.to /\ e.up_from = kw.up_from
                        /\ TestXs[k] = x[i]) => y[i] = e.expected[k]

C26_BreakpointsFlagOwnDates ==
    (Returned /\ \E i \in DOMAIN Processed : Processed[i].nan) =>
        /\ {mask[i].t : i \in Flagged} =
               {NonNan(Processed)[r + 1].t : r \in Range(result)}
        /\ Cardinality(Flagged) = Len(result)
        /\ \A r \in Range(result) : r < Len(NonNan(Processed))

\* C27: whatever the input and the buffer_day_length >= 0, the dictionary
\* get_longest_shift_segment_dates returns is an interval: start_date is not
\* later than end_date, also when the longest segment spans fewer than
\* twice buffer_day_length days.
C27_StartNotAfterEnd ==
    pc = "segment_done" =>
        passing_dates_dict.start_date <= passing_dates_dict.end_date
====
